---- MODULE Spec2Model ----
(***************************************************************************)
(* babyfs, super.c: the mount/unmount lifecycle of a filesystem instance   *)
(* (babyfs_fill_super, baby_put_super), the baby_inode_info slab cache     *)
(* with its RCU-deferred free (baby_alloc_inode, baby_destroy_inode,       *)
(* baby_i_callback, init_once, init_inodecache, destroy_inodecache) and    *)
(* the module lifecycle (init_babyfs, exit_babyfs).                        *)
(*                                                                         *)
(* Kernel services the file calls (kzalloc/kfree, sb_bread/brelse, the     *)
(* slab allocator, call_rcu/rcu_barrier, register_filesystem, the module   *)
(* reference count of mount_bdev) are modelled by their documented         *)
(* behaviour; their fallible results are inputs drawn with \E.             *)
(***************************************************************************)
EXTENDS Integers, FiniteSets

\* ---------------------------------------------------------------- bounds
NInst == 2
NSlots == 2
NReaders == 2
MaxCycles == 2
MaxPuts == 2

Insts == 1..NInst
Slots == 1..NSlots
Readers == 1..NReaders
\* kzalloc'ed baby_sb_info objects: fill_super allocates at most one per call
SbiIds == 1..NInst

NULL == 0

\* ------------------------------------------------------ on-disk superblock
\* struct baby_super_block as read from block BABYFS_SUPER_BLOCK: the two
\* fields fill_super reads.  Nothing validates them.  The magic is kept as its
\* hexadecimal numeral: 0xBABE1234 is beyond TLC's 32-bit signed integers.
\* Every instance has its own device, and the devices differ in size.
DiskOf(i) == [magic |-> "0xBABE1234", nr_dstore_blocks |-> 1000 * i]

NoData == [magic |-> "0x00000000", nr_dstore_blocks |-> 0]

\* what baby_iget can hand back instead of an inode
IgetErrors == {"-ENOENT", "-EIO"}

VARIABLES
  sb,               \* struct super_block of each instance
  sbiHeap,          \* kmalloc heap of struct baby_sb_info objects
  bufs,             \* buffer head of each device's superblock block
  NR_DSTORE_BLOCKS, \* the global of line 9
  fillRet,          \* what babyfs_fill_super returned for the instance
  failedAt,         \* the step of fill_super that failed (history)
  igetRes,          \* what baby_iget returned to fill_super (history)
  putCalls,         \* number of baby_put_super calls on the instance (history)
  cache,            \* baby_inode_cachep: the slab cache and its objects
  rcu,              \* pending call_rcu callbacks and their grace periods
  reader,           \* RCU read-side critical sections: the inode referenced
  registered,       \* baby_fs_type is registered
  modpc,            \* where the module's init/exit thread stands
  initRet,          \* what init_babyfs returned last
  barrier           \* rcu_barrier of destroy_inodecache: what it waits for

vars ==
  << sb, sbiHeap, bufs, NR_DSTORE_BLOCKS, fillRet, failedAt, igetRes, putCalls,
     cache, rcu, reader, registered, modpc, initRet, barrier >>

superVars == << sb, sbiHeap, bufs, NR_DSTORE_BLOCKS, fillRet, failedAt, igetRes, putCalls >>
poolVars == << cache, rcu >>
modVars == << registered, modpc, initRet, barrier >>

\* ------------------------------------------------------------ kernel heap
\* kzalloc: a zeroed object at a free address, here the lowest one.  owner is
\* history: the instance whose fill_super allocated the object.
FreeSbi(h) == { k \in SbiIds : ~h[k].live }

Kzalloc(h, i) ==
  LET k == CHOOSE x \in FreeSbi(h) : \A y \in FreeSbi(h) : x <= y
  IN  [ptr |-> k,
       heap |-> [h EXCEPT ![k] = [live |-> TRUE, owner |-> i,
                                  s_sbh |-> NULL, s_babysb |-> NULL]]]

Kfree(h, k) == [h EXCEPT ![k].live = FALSE]

\* the baby_sb_info objects alive that were allocated for instance i
SbiOf(i) == { k \in SbiIds : sbiHeap[k].live /\ sbiHeap[k].owner = i }

\* ---------------------------------------------------------- buffer heads
\* sb_bread pins the block: one more reference, data valid.
SbBread(b, i, img) ==
  [b EXCEPT ![i].b_count = @ + 1, ![i].b_data = img, ![i].nBread = @ + 1]

\* brelse drops one reference; on a buffer with no reference left the kernel
\* warns ("trying to free free buffer") and leaves the count alone.
\* brelse(NULL) does nothing.
Brelse(b, i) ==
  IF i = NULL THEN b
  ELSE [b EXCEPT ![i].b_count = IF @ > 0 THEN @ - 1 ELSE @, ![i].nBrelse = @ + 1]


\* ------------------------------------------------------- slab allocator
\* The state of a cache that does not exist (before kmem_cache_create, after
\* kmem_cache_destroy): no slab, every slot is raw memory.
NoCache ==
  [exists |-> FALSE, ctor |-> "none",
   state    |-> [s \in Slots |-> "uncarved"],
   inited   |-> [s \in Slots |-> FALSE],
   ctorRuns |-> [s \in Slots |-> 0],
   cycles   |-> [s \in Slots |-> 0],
   nReclaim |-> [s \in Slots |-> 0],
   nFree    |-> [s \in Slots |-> 0]]

\* kmem_cache_create_usercopy(..., ctor): an empty cache that remembers ctor
KmemCacheCreate(ctor) == [NoCache EXCEPT !.exists = TRUE, !.ctor = ctor]

\* inode_init_once on the vfs_inode of the object
InitOnce(c, s) == [c EXCEPT !.inited[s] = TRUE, !.ctorRuns[s] = @ + 1]

\* a slab is carved from the page allocator: the cache's constructor, when it
\* has one, runs on the new object, which is then free
Carve(c, s) ==
  LET c1 == IF c.ctor = "init_once" THEN InitOnce(c, s) ELSE c
  IN  [c1 EXCEPT !.state[s] = "free"]

Take(c, s) == [c EXCEPT !.state[s] = "allocated", !.cycles[s] = @ + 1]

\* kmem_cache_alloc(cachep, GFP_KERNEL): NULL, or a free object, or, when
\* the slabs hold no free object, an object of a newly carved slab.  The
\* constructor does not run on an object that is handed out again.
KmemCacheAlloc(c) ==
  LET free == { s \in Slots : c.state[s] = "free" /\ c.cycles[s] < MaxCycles }
      raw  == { s \in Slots : c.state[s] = "uncarved" }
      low  == CHOOSE s \in raw : \A u \in raw : s <= u
  IN  { [obj |-> NULL, cache |-> c] }
      \cup
      (IF free # {}
       THEN { [obj |-> s, cache |-> Take(c, s)] : s \in free }
       ELSE IF raw # {}
            THEN { [obj |-> low, cache |-> Take(Carve(c, low), low)] }
            ELSE {})

\* kmem_cache_free(cachep, obj)
KmemCacheFree(c, s) == [c EXCEPT !.state[s] = "free", !.nFree[s] = @ + 1]

\* ----------------------------------------------------------------- RCU
NoRef == 0

NoRcu == [queue |-> {}, wait |-> [s \in Slots |-> {}]]

\* the readers inside a read-side critical section
InSection(rd) == { r \in Readers : rd[r] # NoRef }

\* call_rcu(head, func): func is queued and runs after a grace period, that
\* is once every reader that is inside a critical section now has left it
CallRcu(r, s, rd) ==
  [r EXCEPT !.queue = @ \cup {s}, !.wait[s] = InSection(rd)]

\* ----------------------------------------------- the inode cache, super.c
\* m is the pair [cache, rcu] the functions work on.

\* (variant: the allocation path initialises the object again, as a
\* baby_alloc_inode calling inode_init_once would)
BabyAllocInode_reinit(m) ==
  { [obj |-> o.obj,
     m |-> [m EXCEPT !.cache = IF o.obj = NULL THEN o.cache ELSE InitOnce(o.cache, o.obj)]] :
    o \in KmemCacheAlloc(m.cache) }

\* (variant: an object whose callback is still pending is handed out again,
\* as a baby_alloc_inode keeping its own list of destroyed inodes would)
BabyAllocInode_reusePending(m) ==
  { [obj |-> o.obj, m |-> [m EXCEPT !.cache = o.cache]] : o \in KmemCacheAlloc(m.cache) }
  \cup
  { [obj |-> s, m |-> [m EXCEPT !.cache = Take(m.cache, s)]] :
    s \in { q \in m.rcu.queue : m.cache.cycles[q] < MaxCycles } }

\* lines 86-92: an object of the cache or NULL; nothing else is done to it
BabyAllocInode(m) ==
  { [obj |-> o.obj, m |-> [m EXCEPT !.cache = o.cache]] : o \in KmemCacheAlloc(m.cache) }

\* (variant: the callback forgets the kmem_cache_free)
BabyICallback_noFree(m, s) == m

\* lines 94-97: the RCU callback returns the object to the cache
BabyICallback(m, s) == [m EXCEPT !.cache = KmemCacheFree(m.cache, s)]

\* (variant: a shortcut that frees at once when no reader is inside a
\* critical section, and defers only otherwise)
BabyDestroyInode_inlineWhenIdle(m, s, rd) ==
  IF InSection(rd) = {}
  THEN [m EXCEPT !.cache = KmemCacheFree([m.cache EXCEPT !.nReclaim[s] = @ + 1], s)]
  ELSE [m EXCEPT !.rcu = CallRcu(m.rcu, s, rd), !.cache.nReclaim[s] = @ + 1]

\* (variant: the object is freed at once, without call_rcu)
BabyDestroyInode_sync(m, s, rd) ==
  [m EXCEPT !.cache = KmemCacheFree([m.cache EXCEPT !.nReclaim[s] = @ + 1], s)]

\* lines 100-102: queue baby_i_callback; the object is not freed here
BabyDestroyInode(m, s, rd) ==
  [m EXCEPT !.rcu = CallRcu(m.rcu, s, rd), !.cache.nReclaim[s] = @ + 1]

\* (variant: the cache is created without its constructor)
InitInodecache_noCtor(ok) ==
  IF ok THEN [ret |-> "0", cache |-> KmemCacheCreate("none")]
        ELSE [ret |-> "-ENOMEM", cache |-> NoCache]

\* lines 111-126, with the allocation result of kmem_cache_create as input
InitInodecache(ok) ==
  IF ok THEN [ret |-> "0", cache |-> KmemCacheCreate("init_once")]
        ELSE [ret |-> "-ENOMEM", cache |-> NoCache]

\* baby_iget(sb, BABYFS_ROOT_INODE_NO): an inode obtained through
\* sb->s_op->alloc_inode, or an error with nothing left allocated
BabyIget(m) ==
  { [res |-> e, obj |-> NULL, m |-> m] : e \in IgetErrors }
  \cup
  { [res |-> "inode", obj |-> o.obj, m |-> o.m] : o \in { a \in BabyAllocInode(m) : a.obj # NULL } }


\* ------------------------------------------------------------------ Init
Init ==
  /\ sb = [i \in Insts |-> [s_blocksize |-> "device", s_magic |-> "0x00000000", s_op |-> "none",
                            s_fs_info |-> NULL, s_root |-> FALSE]]
  /\ sbiHeap = [k \in SbiIds |-> [live |-> FALSE, owner |-> NULL,
                                  s_sbh |-> NULL, s_babysb |-> NULL]]
  /\ bufs = [i \in Insts |-> [b_count |-> 0, b_data |-> NoData, nBread |-> 0, nBrelse |-> 0]]
  /\ NR_DSTORE_BLOCKS = 0
  /\ fillRet = [i \in Insts |-> "not_called"]
  /\ failedAt = [i \in Insts |-> "none"]
  /\ igetRes = [i \in Insts |-> "none"]
  /\ putCalls = [i \in Insts |-> 0]
  /\ cache = NoCache
  /\ rcu = NoRcu
  /\ reader = [r \in Readers |-> NoRef]
  /\ registered = FALSE
  /\ modpc = "not_loaded"
  /\ initRet = "none"
  /\ barrier = [waitFor |-> {}, pendingAtEntry |-> 0]

\* ------------------------------------------------- babyfs_fill_super
\* (variant: failed_mount without its brelse)
FailedMount_leak(b, i) == b

\* label failed_mount, lines 61-62
FailedMount(b, i) == Brelse(b, i)

\* lines 35-43: the superblock fields and the baby_sb_info set from the block
\* just read; k is the baby_sb_info, i the buffer head
\* (variant: the global keeps the count of the first mount once it is set)
NrDstoreBlocksOf_firstOnly(old, img) ==
  IF old = 0 THEN img.nr_dstore_blocks ELSE old

\* line 36: the new value of the global, given its old value and the block
\* just read; the old value plays no part.
NrDstoreBlocksOf(old, img) == img.nr_dstore_blocks

FillFields(s, i, k, img) ==
  [s EXCEPT ![i].s_magic = img.magic, ![i].s_op = "babyfs_super_opts", ![i].s_fs_info = k]

FillInfo(h, i, k) == [h EXCEPT ![k].s_babysb = i, ![k].s_sbh = i]

\* The whole of babyfs_fill_super (lines 12-65) on the new super_block i.
\* Inputs: kz, bs, rd say whether kzalloc, sb_set_blocksize and sb_bread
\* succeed, ig what baby_iget does, dm whether d_make_root succeeds.  d_make_root drops its inode when it fails
\* (iput, and with the last reference sb->s_op->destroy_inode).
FillSuper(i, kz, bs, rd, ig, dm) ==
  LET img  == DiskOf(i)
      a    == Kzalloc(sbiHeap, i)
      k    == a.ptr
      sb1  == [sb EXCEPT ![i].s_blocksize = "BABYFS_BLOCK_SIZE"]
      b1   == SbBread(bufs, i, img)
      sb2  == FillFields(sb1, i, k, img)
      h2   == FillInfo(a.heap, i, k)
      mErr == BabyDestroyInode(ig.m, ig.obj, reader)
  IN
  /\ registered
  /\ fillRet[i] = "not_called"
  /\ UNCHANGED << putCalls, reader, modVars >>
  /\ IF ~kz THEN
       /\ fillRet' = [fillRet EXCEPT ![i] = "-ENOMEM"]
       /\ failedAt' = [failedAt EXCEPT ![i] = "kzalloc"]
       /\ UNCHANGED << sb, sbiHeap, bufs, NR_DSTORE_BLOCKS, igetRes, cache, rcu >>
     ELSE IF ~bs THEN
       /\ sbiHeap' = a.heap
       /\ fillRet' = [fillRet EXCEPT ![i] = "-ENOMEM"]
       /\ failedAt' = [failedAt EXCEPT ![i] = "sb_set_blocksize"]
       /\ UNCHANGED << sb, bufs, NR_DSTORE_BLOCKS, igetRes, cache, rcu >>
     ELSE IF ~rd THEN
       /\ sbiHeap' = a.heap
       /\ sb' = sb1
       /\ fillRet' = [fillRet EXCEPT ![i] = "-ENOMEM"]
       /\ failedAt' = [failedAt EXCEPT ![i] = "sb_bread"]
       /\ UNCHANGED << bufs, NR_DSTORE_BLOCKS, igetRes, cache, rcu >>
     ELSE
       /\ NR_DSTORE_BLOCKS' = NrDstoreBlocksOf(NR_DSTORE_BLOCKS, img)
       /\ sbiHeap' = h2
       /\ igetRes' = [igetRes EXCEPT ![i] = ig.res]
       /\ IF ig.res # "inode" THEN
            /\ sb' = sb2
            /\ bufs' = FailedMount(b1, i)
            /\ fillRet' = [fillRet EXCEPT ![i] = ig.res]
            /\ failedAt' = [failedAt EXCEPT ![i] = "baby_iget"]
            /\ cache' = ig.m.cache
            /\ rcu' = ig.m.rcu
          ELSE IF ~dm THEN
            /\ sb' = sb2
            /\ bufs' = FailedMount(b1, i)
            /\ fillRet' = [fillRet EXCEPT ![i] = "-ENOMEM"]
            /\ failedAt' = [failedAt EXCEPT ![i] = "d_make_root"]
            /\ cache' = mErr.cache
            /\ rcu' = mErr.rcu
          ELSE
            /\ sb' = [sb2 EXCEPT ![i].s_root = TRUE]
            /\ bufs' = b1
            /\ fillRet' = [fillRet EXCEPT ![i] = "0"]
            /\ failedAt' = failedAt
            /\ cache' = ig.m.cache
            /\ rcu' = ig.m.rcu

\* --------------------------------------------------------- baby_put_super
\* (variant: the buffer head is not released)
BabyPutSuper_noBrelse(i) ==
  LET k == sb[i].s_fs_info
  IN
  /\ registered
  /\ sb[i].s_op = "babyfs_super_opts"
  /\ putCalls[i] < MaxPuts
  /\ putCalls' = [putCalls EXCEPT ![i] = @ + 1]
  /\ UNCHANGED << bufs, NR_DSTORE_BLOCKS, fillRet, failedAt, igetRes, poolVars, reader, modVars >>
  /\ IF k = NULL THEN
       UNCHANGED << sb, sbiHeap >>
     ELSE
       /\ sb' = [sb EXCEPT ![i].s_fs_info = NULL]
       /\ sbiHeap' = Kfree(sbiHeap, k)

\* (variant: sb->s_fs_info is not cleared)
BabyPutSuper_keepRef(i) ==
  LET k == sb[i].s_fs_info
  IN
  /\ registered
  /\ sb[i].s_op = "babyfs_super_opts"
  /\ putCalls[i] < MaxPuts
  /\ putCalls' = [putCalls EXCEPT ![i] = @ + 1]
  /\ UNCHANGED << sb, NR_DSTORE_BLOCKS, fillRet, failedAt, igetRes, poolVars, reader, modVars >>
  /\ IF k = NULL THEN
       UNCHANGED << sbiHeap, bufs >>
     ELSE
       /\ bufs' = Brelse(bufs, sbiHeap[k].s_sbh)
       /\ sbiHeap' = Kfree(sbiHeap, k)

\* lines 138-146.  It is reached through sb->s_op, so only on a super_block
\* fill_super has given its operations.
BabyPutSuper(i) ==
  LET k == sb[i].s_fs_info
  IN
  /\ registered
  /\ sb[i].s_op = "babyfs_super_opts"
  /\ putCalls[i] < MaxPuts
  /\ putCalls' = [putCalls EXCEPT ![i] = @ + 1]
  /\ UNCHANGED << NR_DSTORE_BLOCKS, fillRet, failedAt, igetRes, poolVars, reader, modVars >>
  /\ IF k = NULL THEN
       UNCHANGED << sb, sbiHeap, bufs >>
     ELSE
       /\ bufs' = Brelse(bufs, sbiHeap[k].s_sbh)
       /\ sb' = [sb EXCEPT ![i].s_fs_info = NULL]
       /\ sbiHeap' = Kfree(sbiHeap, k)


\* an instance is mounted from the successful return of fill_super to its
\* put_super
Mounted(i) == fillRet[i] = "0" /\ putCalls[i] = 0

\* statfs(2) on instance i: the VFS zeroes the kstatfs buffer and calls
\* sb->s_op->statfs, which babyfs_super_opts sets to simple_statfs.  That
\* fills in f_type, f_bsize and f_namelen and nothing else, so the block
\* counts stay at zero whatever the disk says.
Statfs(i) ==
  [ f_type    |-> sb[i].s_magic,
    f_bsize   |-> "PAGE_SIZE",
    f_namelen |-> "NAME_MAX",
    f_blocks  |-> 0,
    f_bfree   |-> 0,
    f_bavail  |-> 0 ]

\* ------------------------------------------------ the VFS using the cache
\* new_inode/iget_locked on a super_block of the type, which exists only
\* while the type is registered: sb->s_op->alloc_inode
AllocInode ==
  /\ registered
  /\ \E o \in BabyAllocInode([cache |-> cache, rcu |-> rcu]) :
       /\ cache' = o.m.cache
       /\ rcu' = o.m.rcu
  /\ UNCHANGED << superVars, reader, modVars >>

\* the last reference to an inode is dropped: sb->s_op->destroy_inode, once
\* per allocation
DestroyInode(s) ==
  /\ cache.state[s] = "allocated"
  /\ s \notin rcu.queue
  /\ cache.nReclaim[s] < cache.cycles[s]
  /\ LET m == BabyDestroyInode([cache |-> cache, rcu |-> rcu], s, reader)
     IN  cache' = m.cache /\ rcu' = m.rcu
  /\ UNCHANGED << superVars, reader, modVars >>

\* The RCU core invokes a queued callback when its grace period is over, and
\* takes it off the queue first.
RcuInvoke(s) ==
  /\ s \in rcu.queue
  /\ rcu.wait[s] = {}
  /\ LET m == BabyICallback([cache |-> cache, rcu |-> [rcu EXCEPT !.queue = @ \ {s}]], s)
     IN  cache' = m.cache /\ rcu' = m.rcu
  /\ barrier' = [barrier EXCEPT !.waitFor = @ \ {s}]
  /\ UNCHANGED << superVars, reader, registered, modpc, initRet >>

\* A lock-free reader (rcu_read_lock) picks up a reference to an inode that
\* is still reachable, that is not yet handed to destroy_inode ...
ReaderEnter(r, s) ==
  /\ reader[r] = NoRef
  /\ cache.state[s] = "allocated"
  /\ s \notin rcu.queue
  /\ reader' = [reader EXCEPT ![r] = s]
  /\ UNCHANGED << superVars, poolVars, modVars >>

\* ... and leaves its critical section (rcu_read_unlock): no grace period
\* waits for it any more
ReaderExit(r) ==
  /\ reader[r] # NoRef
  /\ reader' = [reader EXCEPT ![r] = NoRef]
  /\ rcu' = [rcu EXCEPT !.wait = [s \in Slots |-> @[s] \ {r}]]
  /\ UNCHANGED << superVars, cache, modVars >>

\* ------------------------------------------------------- module lifecycle
\* rcu_barrier() is entered: it returns once every callback queued by now
\* has run.  pendingAtEntry is history.
RcuBarrierEnter(r) == [waitFor |-> r.queue, pendingAtEntry |-> Cardinality(r.queue)]

RcuBarrierDone(b, r) == b.waitFor \cap r.queue = {}

\* init_babyfs, lines 164-170: init_inodecache and its error return
InitBabyfsCache(ok) ==
  /\ modpc = "not_loaded"
  /\ cache' = InitInodecache(ok).cache
  /\ IF InitInodecache(ok).ret = "0"
       THEN modpc' = "init_pool_ready" /\ initRet' = "none"
       ELSE modpc' = "not_loaded" /\ initRet' = InitInodecache(ok).ret
  /\ barrier' = [waitFor |-> {}, pendingAtEntry |-> 0]
  /\ UNCHANGED << superVars, rcu, reader, registered >>

\* (variant: the error of register_filesystem is returned without
\* destroy_inodecache)
InitBabyfsRegister_noDestroy(ok) ==
  /\ modpc = "init_pool_ready"
  /\ IF ok
       THEN /\ registered' = TRUE
            /\ modpc' = "active"
            /\ initRet' = "0"
       ELSE /\ registered' = FALSE
            /\ modpc' = "not_loaded"
            /\ initRet' = "-EBUSY"
  /\ UNCHANGED << superVars, poolVars, reader, barrier >>

\* init_babyfs, lines 172-179: register_filesystem; when it fails
\* destroy_inodecache is called and waits in rcu_barrier
InitBabyfsRegister(ok) ==
  /\ modpc = "init_pool_ready"
  /\ IF ok
       THEN /\ registered' = TRUE
            /\ modpc' = "active"
            /\ initRet' = "0"
            /\ barrier' = barrier
       ELSE /\ registered' = FALSE
            /\ modpc' = "init_barrier"
            /\ initRet' = "-EBUSY"
            /\ barrier' = RcuBarrierEnter(rcu)
  /\ UNCHANGED << superVars, poolVars, reader >>

\* (variant: destroy_inodecache is called first and the type is still
\* registered while the cache is torn down)
ExitBabyfs_destroyFirst ==
  /\ modpc = "active"
  /\ \A i \in Insts : ~Mounted(i)
  /\ \A s \in Slots : cache.state[s] = "allocated" => s \in rcu.queue
  /\ modpc' = "exit_barrier"
  /\ barrier' = RcuBarrierEnter(rcu)
  /\ UNCHANGED << superVars, poolVars, reader, initRet, registered >>

\* exit_babyfs, lines 182-185: unregister_filesystem, then destroy_inodecache
\* is called and waits in rcu_barrier.  The module is unloaded only with its
\* reference count at zero (.owner = THIS_MODULE, line 157): no super_block
\* of the type is mounted, and unmounting has evicted every inode.
ExitBabyfs ==
  /\ modpc = "active"
  /\ \A i \in Insts : ~Mounted(i)
  /\ \A s \in Slots : cache.state[s] = "allocated" => s \in rcu.queue
  /\ registered' = FALSE
  /\ modpc' = "exit_barrier"
  /\ barrier' = RcuBarrierEnter(rcu)
  /\ UNCHANGED << superVars, poolVars, reader, initRet >>

\* (variant: rcu_barrier is called inside the caller's own read-side critical
\* section, so it never returns when a callback was pending at its entry)
DestroyInodecache_selfBlocked ==
  /\ modpc \in {"exit_barrier", "init_barrier"}
  /\ barrier.pendingAtEntry = 0
  /\ RcuBarrierDone(barrier, rcu)
  /\ cache' = NoCache
  /\ modpc' = "not_loaded"
  /\ UNCHANGED << superVars, rcu, reader, registered, initRet, barrier >>

\* (variant: kmem_cache_destroy without the rcu_barrier before it)
DestroyInodecache_noBarrier ==
  /\ modpc \in {"exit_barrier", "init_barrier"}
  /\ cache' = NoCache
  /\ modpc' = "not_loaded"
  /\ UNCHANGED << superVars, rcu, reader, registered, initRet, barrier >>

\* destroy_inodecache, lines 129-136: rcu_barrier returns, then
\* kmem_cache_destroy
DestroyInodecache ==
  /\ modpc \in {"exit_barrier", "init_barrier"}
  /\ RcuBarrierDone(barrier, rcu)
  /\ cache' = NoCache
  /\ modpc' = "not_loaded"
  /\ UNCHANGED << superVars, rcu, reader, registered, initRet, barrier >>

\* ------------------------------------------------------- specifications
Next ==
  \/ \E i \in Insts, kz \in BOOLEAN, bs \in BOOLEAN, rd \in BOOLEAN,
        ig \in BabyIget([cache |-> cache, rcu |-> rcu]), dm \in BOOLEAN :
       FillSuper(i, kz, bs, rd, ig, dm)
  \/ \E i \in Insts : BabyPutSuper(i)
  \/ AllocInode
  \/ \E s \in Slots : DestroyInode(s)
  \/ \E s \in Slots : RcuInvoke(s)
  \/ \E r \in Readers, s \in Slots : ReaderEnter(r, s)
  \/ \E r \in Readers : ReaderExit(r)
  \/ \E ok \in BOOLEAN : InitBabyfsCache(ok)
  \/ \E ok \in BOOLEAN : InitBabyfsRegister(ok)
  \/ ExitBabyfs
  \/ DestroyInodecache

Spec == Init /\ [][Next]_vars

\* The mount/unmount lifecycle of the instances and the module around it.
\* Of the inode traffic of the mounted instances only the release of their
\* inodes is kept, which lets the module be unloaded after a mount.
SuperNext ==
  \/ \E i \in Insts, kz \in BOOLEAN, bs \in BOOLEAN, rd \in BOOLEAN,
        ig \in BabyIget([cache |-> cache, rcu |-> rcu]), dm \in BOOLEAN :
       FillSuper(i, kz, bs, rd, ig, dm)
  \/ \E i \in Insts : BabyPutSuper(i)
  \/ \E s \in Slots : DestroyInode(s)
  \/ \E s \in Slots : RcuInvoke(s)
  \/ \E ok \in BOOLEAN : InitBabyfsCache(ok)
  \/ \E ok \in BOOLEAN : InitBabyfsRegister(ok)
  \/ ExitBabyfs
  \/ DestroyInodecache

SuperSpec == Init /\ [][SuperNext]_vars

\* The inode cache, its readers and the module around it, without the
\* super_blocks: the inodes are those of whatever is mounted.
PoolNext ==
  \/ AllocInode
  \/ \E s \in Slots : DestroyInode(s)
  \/ \E s \in Slots : RcuInvoke(s)
  \/ \E r \in Readers, s \in Slots : ReaderEnter(r, s)
  \/ \E r \in Readers : ReaderExit(r)
  \/ \E ok \in BOOLEAN : InitBabyfsCache(ok)
  \/ \E ok \in BOOLEAN : InitBabyfsRegister(ok)
  \/ ExitBabyfs
  \/ DestroyInodecache

PoolSpec == Init /\ [][PoolNext]_vars

\* A grace period ends (read-side critical sections are finite), a callback
\* whose grace period is over is invoked, and rcu_barrier returns when the
\* callbacks it waits for have run.
PoolFairSpec ==
  /\ PoolSpec
  /\ \A r \in Readers : WF_vars(ReaderExit(r))
  /\ \A s \in Slots : WF_vars(RcuInvoke(s))
  /\ WF_vars(DestroyInodecache)


\* ================================================================ claims
\* ---------------------------------------------------------------- C1
\* C1: after a successful fill_super, until put_super, exactly one
\* baby_sb_info exists for the instance, it is the one s_fs_info points to
\* and the buffer head read at mount is still held; from the first
\* put_super on, that buffer head has been released exactly once and no
\* baby_sb_info of the instance is left.
C1_OneInfoOneRelease ==
  \A i \in Insts :
    fillRet[i] = "0" =>
      /\ bufs[i].nBread = 1
      /\ IF putCalls[i] = 0
           THEN /\ Cardinality(SbiOf(i)) = 1
                /\ sb[i].s_fs_info \in SbiOf(i)
                /\ sbiHeap[sb[i].s_fs_info].s_sbh = i
                /\ bufs[i].nBrelse = 0
                /\ bufs[i].b_count = 1
           ELSE /\ SbiOf(i) = {}
                /\ bufs[i].nBrelse = 1
                /\ bufs[i].b_count = 0

C1_Witness ==
  \E i \in Insts :
    fillRet[i] = "0" /\ putCalls[i] >= 1 /\ bufs[i].nBread = 1 /\ bufs[i].nBrelse = 1

\* ---------------------------------------------------------------- C2
\* C2: when fill_super has returned an error (and put_super has not run
\* since), no baby_sb_info allocated for the instance is left and no
\* reference to the buffer head is held.
C2_FailedMountHoldsNothing ==
  \A i \in Insts :
    (fillRet[i] \notin {"not_called", "0"} /\ putCalls[i] = 0) =>
      SbiOf(i) = {} /\ bufs[i].b_count = 0

\* ---------------------------------------------------------------- C3
\* C3: when fill_super fails because sb_set_blocksize or sb_bread failed,
\* it returns -EIO.
C3_IoFailureReturnsEIO ==
  \A i \in Insts :
    failedAt[i] \in {"sb_set_blocksize", "sb_bread"} => fillRet[i] = "-EIO"

\* ---------------------------------------------------------------- C4
\* C4: when fill_super has failed after reading the superblock block (and
\* put_super has not run since), the buffer head it read has been released
\* exactly once and is no longer held, and the return value is baby_iget's
\* own error when baby_iget failed and -ENOMEM when d_make_root failed.
C4_LateFailureReleasesHandle ==
  \A i \in Insts :
    (failedAt[i] \in {"baby_iget", "d_make_root"} /\ putCalls[i] = 0) =>
      /\ bufs[i].nBread = 1
      /\ bufs[i].nBrelse = 1
      /\ bufs[i].b_count = 0
      /\ failedAt[i] = "baby_iget" => (fillRet[i] = igetRes[i] /\ igetRes[i] \in IgetErrors)
      /\ failedAt[i] = "d_make_root" => (fillRet[i] = "-ENOMEM" /\ igetRes[i] = "inode")

C4_Witness ==
  \E i, j \in Insts :
    /\ failedAt[i] = "baby_iget" /\ fillRet[i] = "-ENOENT" /\ bufs[i].nBrelse = 1
    /\ failedAt[j] = "d_make_root" /\ fillRet[j] = "-ENOMEM" /\ bufs[j].nBrelse = 1

\* ---------------------------------------------------------------- C5
\* C5: a put_super on a mounted instance releases the buffer head once,
\* clears s_fs_info and frees the baby_sb_info; a put_super on an instance
\* whose s_fs_info is NULL changes nothing (but the count of calls).
C5_PutSuperIdempotent ==
  [][ \A i \in Insts :
        putCalls'[i] # putCalls[i] =>
          IF sb[i].s_fs_info = NULL
            THEN UNCHANGED << sb, sbiHeap, bufs, NR_DSTORE_BLOCKS, fillRet, failedAt,
                              igetRes, cache, rcu, reader, modVars >>
            ELSE fillRet[i] = "0" =>
                   /\ bufs'[i].nBrelse = bufs[i].nBrelse + 1
                   /\ bufs'[i].b_count = bufs[i].b_count - 1
                   /\ sb'[i].s_fs_info = NULL
                   /\ sbiHeap[sb[i].s_fs_info].live
                   /\ ~sbiHeap'[sb[i].s_fs_info].live ]_vars

C5_Witness ==
  \E i \in Insts :
    /\ fillRet[i] = "0"
    /\ putCalls[i] = 2
    /\ sb[i].s_fs_info = NULL
    /\ bufs[i].nBrelse = 1
    /\ SbiOf(i) = {}


\* ---------------------------------------------------------------- C6
\* C6: the step that destroys the cache is taken only when no call_rcu
\* callback is pending: every object handed to baby_destroy_inode has been
\* freed by its callback.
C6_NoDestroyWhilePending ==
  [][ (cache.exists /\ ~cache'.exists) =>
        /\ rcu.queue = {}
        /\ \A s \in Slots : cache.nFree[s] = cache.nReclaim[s] ]_vars

\* a teardown that found two callbacks pending has completed
C6_Witness ==
  /\ modpc = "not_loaded"
  /\ ~cache.exists
  /\ barrier.pendingAtEntry >= 2
  /\ rcu.queue = {}

\* ---------------------------------------------------------------- C7
\* C7: an inode object leaves the allocated state (goes back to the cache)
\* only in a step before which no reader holds a reference to it.
C7_NoFreeUnderReader ==
  [][ \A s \in Slots :
        (cache.state[s] = "allocated" /\ cache'.state[s] # "allocated") =>
          \A r \in Readers : reader[r] # s ]_vars

\* an object handed to baby_destroy_inode while a reader still holds it
C7_Witness ==
  \E s \in Slots, r \in Readers :
    /\ s \in rcu.queue
    /\ reader[r] = s
    /\ r \in rcu.wait[s]
    /\ cache.state[s] = "allocated"

\* ---------------------------------------------------------------- C8
\* C8: an object is never freed more often than it was handed to
\* baby_destroy_inode, a callback is pending exactly between the two, and
\* the n-th baby_destroy_inode of an object leads to its n-th free.
C8_ExactlyOneFree ==
  /\ [](\A s \in Slots :
          /\ cache.nFree[s] <= cache.nReclaim[s]
          /\ cache.nReclaim[s] <= cache.nFree[s] + 1
          /\ (s \in rcu.queue) <=> (cache.nReclaim[s] = cache.nFree[s] + 1))
  /\ \A s \in Slots : \A n \in 1..MaxCycles :
       (cache.nReclaim[s] = n) ~> (cache.nFree[s] = n)

C8_Witness ==
  \E s \in Slots :
    cache.nReclaim[s] = 2 /\ cache.nFree[s] = 2 /\ cache.state[s] = "free"

\* ---------------------------------------------------------------- C9
\* C9: init_once has run exactly once on every carved slot and never on raw
\* memory, whatever the slot has been through since.
C9_CtorOncePerSlot ==
  \A s \in Slots :
    cache.ctorRuns[s] = (IF cache.state[s] = "uncarved" THEN 0 ELSE 1)

\* a slot in its second allocation, after a deferred free
C9_Witness ==
  \E s \in Slots :
    /\ cache.state[s] = "allocated"
    /\ cache.cycles[s] = 2
    /\ cache.nFree[s] = 1
    /\ cache.ctorRuns[s] = 1

\* ---------------------------------------------------------------- C10
\* C10: every object that is allocated has an initialised vfs_inode.
C10_AllocatedIsInitialised ==
  \A s \in Slots : cache.state[s] = "allocated" => cache.inited[s]

\* one object in its first allocation, another allocated again
C10_Witness ==
  \E s, u \in Slots :
    /\ cache.state[s] = "allocated" /\ cache.cycles[s] = 1 /\ cache.inited[s]
    /\ cache.state[u] = "allocated" /\ cache.cycles[u] >= 2 /\ cache.inited[u]


\* ---------------------------------------------------------------- C11
\* C11: whatever the interleaving of the allocations with each other and
\* with the releases, a step hands out a slot only when nobody holds it: it
\* was free or raw memory before the step, and no callback is pending for it.
C11_AllocHandsOutUnheldSlot ==
  [][ \A s \in Slots :
        cache'.cycles[s] > cache.cycles[s] =>
          /\ cache.state[s] \in {"free", "uncarved"}
          /\ cache'.state[s] = "allocated"
          /\ s \notin rcu.queue
          /\ cache.nFree[s] = cache.nReclaim[s]
          /\ \A u \in Slots \ {s} : cache'.cycles[u] = cache.cycles[u] ]_vars

\* two slots are held at once, one of them waiting for its deferred free
\* while the other has been handed out for the second time
C11_Witness ==
  \E s, u \in Slots :
    /\ s # u
    /\ cache.state[s] = "allocated" /\ s \in rcu.queue
    /\ cache.state[u] = "allocated" /\ u \notin rcu.queue /\ cache.cycles[u] = 2


\* ---------------------------------------------------------------- C12
\* the lifecycle state, read off the pool and the registration
Lifecycle ==
  IF cache.exists
    THEN (IF registered THEN "ACTIVE" ELSE "POOL_READY")
    ELSE (IF registered THEN "REGISTERED_WITHOUT_POOL" ELSE "NOT_LOADED")

LifecycleEdges ==
  { << "NOT_LOADED", "POOL_READY" >>, << "POOL_READY", "ACTIVE" >>,
    << "ACTIVE", "POOL_READY" >>, << "POOL_READY", "NOT_LOADED" >> }

\* C12: the lifecycle state changes only along NOT_LOADED -> POOL_READY ->
\* ACTIVE -> POOL_READY -> NOT_LOADED; the type is registered only from
\* init_babyfs, after the pool was created, and the pool is destroyed only
\* once the type is unregistered; fill_super and put_super run only while
\* the state is ACTIVE.
C12_LifecycleOrder ==
  [][ /\ Lifecycle' # Lifecycle => << Lifecycle, Lifecycle' >> \in LifecycleEdges
      /\ (registered' /\ ~registered) => (cache.exists /\ modpc = "init_pool_ready")
      /\ (cache.exists /\ ~cache'.exists) => (~registered /\ ~registered')
      /\ (fillRet' # fillRet \/ putCalls' # putCalls) =>
           (Lifecycle = "ACTIVE" /\ Lifecycle' = "ACTIVE") ]_vars

\* the module has gone through the whole cycle, with an instance mounted
\* and unmounted while it was active
C12_Witness ==
  /\ Lifecycle = "NOT_LOADED"
  /\ modpc = "not_loaded"
  /\ initRet = "0"
  /\ \E i \in Insts : fillRet[i] = "0" /\ putCalls[i] >= 1


\* ---------------------------------------------------------------- C13
\* C13: when init_babyfs has returned an error, no pool exists and the type
\* is not registered: -ENOMEM comes from init_inodecache without any
\* registration, and after a failed registration the pool is torn down
\* (destroy_inodecache) before init_babyfs returns.
C13_InitFailsCleanly ==
  /\ (modpc = "not_loaded" /\ initRet \in {"-ENOMEM", "-EBUSY"}) =>
       (~cache.exists /\ ~registered /\ rcu.queue = {})
  /\ initRet = "-ENOMEM" => modpc = "not_loaded"
  /\ modpc = "init_barrier" => (initRet = "-EBUSY" /\ ~registered)
  /\ initRet = "-EBUSY" => modpc \in {"init_barrier", "not_loaded"}

\* init_babyfs has returned the error of register_filesystem
C13_Witness ==
  /\ modpc = "not_loaded"
  /\ initRet = "-EBUSY"
  /\ ~cache.exists
  /\ ~registered


\* ---------------------------------------------------------------- C14
\* C14: once destroy_inodecache has been called (every inode of the module
\* has been handed to baby_destroy_inode by then), it gets past rcu_barrier,
\* destroys the cache and returns.
C14_TeardownTerminates ==
  (modpc \in {"exit_barrier", "init_barrier"}) ~> (modpc = "not_loaded" /\ ~cache.exists)

\* exit_babyfs has returned after waiting for one pending callback
C14_Witness ==
  /\ modpc = "not_loaded"
  /\ initRet = "0"
  /\ ~registered
  /\ barrier.pendingAtEntry = 1
  /\ barrier.waitFor = {}


\* ---------------------------------------------------------------- C15
\* C15: after a successful mount of a superblock whose on-disk block count
\* is B, the statistics query of the instance reports a total block count
\* derived from B: it is not zero for a non-empty data store, and instances
\* mounted from disks with different B report different totals.
C15_StatfsReportsDiskBlocks ==
  \A i \in Insts :
    (Mounted(i) /\ sb[i].s_op = "babyfs_super_opts") =>
      /\ bufs[i].b_data.nr_dstore_blocks > 0 => Statfs(i).f_blocks > 0
      /\ \A j \in Insts :
           (Mounted(j) /\ bufs[j].b_data.nr_dstore_blocks # bufs[i].b_data.nr_dstore_blocks)
             => Statfs(j).f_blocks # Statfs(i).f_blocks


\* ---------------------------------------------------------------- C16
\* C16: NR_DSTORE_BLOCKS is one global written by every mount attempt that
\* reads its superblock block, and by nothing else: after such a step it is
\* the on-disk count of the instance just read, so for any other instance
\* still mounted from a disk with a different count the value in effect is
\* no longer its own.
C16_GlobalCountOverwritten ==
  [][ /\ \A j \in Insts :
           bufs'[j].nBread > bufs[j].nBread =>
             /\ NR_DSTORE_BLOCKS' = DiskOf(j).nr_dstore_blocks
             /\ \A a \in Insts \ {j} :
                  (Mounted(a) /\ DiskOf(a).nr_dstore_blocks # DiskOf(j).nr_dstore_blocks) =>
                    NR_DSTORE_BLOCKS' # bufs[a].b_data.nr_dstore_blocks
      /\ (\A j \in Insts : bufs'[j].nBread = bufs[j].nBread) =>
           NR_DSTORE_BLOCKS' = NR_DSTORE_BLOCKS ]_vars

\* two instances mounted at once; the global is not the count of one of them
C16_Witness ==
  \E a, b \in Insts :
    /\ a # b
    /\ Mounted(a) /\ Mounted(b)
    /\ NR_DSTORE_BLOCKS = bufs[b].b_data.nr_dstore_blocks
    /\ NR_DSTORE_BLOCKS # bufs[a].b_data.nr_dstore_blocks


\* ---------------------------------------------------------------- C17
\* C17: the step in which baby_destroy_inode is called on an object only
\* queues the callback: after it the object is still allocated, its
\* callback is pending and nothing has been freed.  The slot goes back to
\* the cache only in a different, later step, which invokes a callback that
\* was pending with its grace period over.
C17_ReclaimOnlyQueues ==
  [][ \A s \in Slots :
        /\ cache'.nReclaim[s] > cache.nReclaim[s] =>
             /\ cache'.state[s] = "allocated"
             /\ s \in rcu'.queue
             /\ cache'.nFree = cache.nFree
        /\ cache'.nFree[s] > cache.nFree[s] =>
             /\ cache'.nReclaim = cache.nReclaim
             /\ s \in rcu.queue /\ s \notin rcu'.queue
             /\ rcu.wait[s] = {} ]_vars

\* baby_destroy_inode has returned with no reader anywhere; the object is
\* still allocated and waits for its callback
C17_Witness ==
  \E s \in Slots :
    /\ cache.state[s] = "allocated"
    /\ s \in rcu.queue
    /\ rcu.wait[s] = {}
    /\ \A r \in Readers : reader[r] = NoRef
    /\ cache.nReclaim[s] = cache.nFree[s] + 1


\* ---------------------------------------------------------------- C18
\* C18: on every instance, whatever mounts and unmounts were called on it
\* (baby_put_super after a mount that failed late included), the block
\* handle is released at most as often as it was obtained, and s_fs_info
\* never points to a baby_sb_info whose block handle is already released.
C18_HandleReleasedOnceAndInfoValid ==
  \A i \in Insts :
    /\ bufs[i].nBrelse <= bufs[i].nBread
    /\ sb[i].s_fs_info # NULL =>
         LET info == sbiHeap[sb[i].s_fs_info]
         IN  info.s_sbh # NULL => bufs[info.s_sbh].b_count > 0


\* ---------------------------------------------------------------- C19
\* C19: a babyfs_fill_super call that returns an error leaves
\* NR_DSTORE_BLOCKS as it was before the call.
C19_FailedMountKeepsGlobalCount ==
  [][ \A i \in Insts :
        (fillRet[i] = "not_called" /\ fillRet'[i] \notin {"not_called", "0"}) =>
          NR_DSTORE_BLOCKS' = NR_DSTORE_BLOCKS ]_vars

====
